---- MODULE Spec2Model ----
(***************************************************************************)
(* A model of assets/script.js: the portfolio page's formatting utilities, *)
(* data loader, section renderers, contact-form submit handler and theme   *)
(* controller.                                                             *)
(*                                                                         *)
(* JavaScript values are records tagged with a "kind".  A JavaScript       *)
(* string is a sequence of tokens; a token is either a run of characters   *)
(* that encodeURIComponent leaves alone or one single reserved character.  *)
(* Markup is a sequence of tokens as well: the literal parts of a template *)
(* are abbreviated to one token each, the interpolated values are spliced  *)
(* in between as the template literal does.                                *)
(***************************************************************************)
EXTENDS Integers, Sequences, FiniteSets

\* ------------------------------------------------------------------ bounds
MaxLen == 3      \* longest text handed to safeTruncate
MaxN == 4        \* largest maxLength handed to safeTruncate
MaxClicks == 2   \* clicks on the theme switch that are counted

\* ------------------------------------------------------- JavaScript values
Undefined == [kind |-> "undefined"]
Null == [kind |-> "null"]
Str(s) == [kind |-> "string", val |-> s]
Arr(xs) == [kind |-> "array", items |-> xs]
Obj(p) == [kind |-> "object", props |-> p]

\* o.p : a missing property reads as undefined
Get(o, p) ==
    IF o.kind = "object" /\ p \in DOMAIN o.props THEN o.props[p] ELSE Undefined

\* reading a property of undefined or null throws a TypeError
CanRead(o) == o.kind \notin {"undefined", "null"}

\* v.map(...) is callable on arrays only
CanMap(v) == v.kind = "array"

\* the truthiness test of `if (v)`, `!v`, `v ? a : b`
Truthy(v) ==
    CASE v.kind = "undefined" -> FALSE
      [] v.kind = "null" -> FALSE
      [] v.kind = "string" -> v.val # <<>>
      [] OTHER -> TRUE

RECURSIVE Flatten(_)
Flatten(ss) == IF ss = <<>> THEN <<>> ELSE Head(ss) \o Flatten(Tail(ss))

RECURSIVE JoinComma(_)
JoinComma(ss) ==
    IF ss = <<>> THEN <<>>
    ELSE IF Len(ss) = 1 THEN Head(ss)
    ELSE Head(ss) \o <<",">> \o JoinComma(Tail(ss))

\* ${v} in a template literal
RECURSIVE ToString(_)
ToString(v) ==
    CASE v.kind = "string" -> v.val
      [] v.kind = "undefined" -> <<"undefined">>
      [] v.kind = "null" -> <<"null">>
      [] v.kind = "array" ->
           JoinComma([i \in 1..Len(v.items) |->
               IF v.items[i].kind \in {"undefined", "null"} THEN <<>>
               ELSE ToString(v.items[i])])
      [] OTHER -> <<"[object Object]">>

\* s occurs in t as a contiguous run
Contains(t, s) ==
    \E i \in 0..(Len(t) - Len(s)) : SubSeq(t, i + 1, i + Len(s)) = s

\* --------------------------------------------------------------- utils
PresentLabel == <<"Actualidad">>
Ellipsis == <<".", ".", ".">>

MonthName(mm) ==
    CASE mm = "01" -> "enero" [] mm = "02" -> "febrero" [] mm = "03" -> "marzo"
      [] mm = "04" -> "abril" [] mm = "05" -> "mayo" [] mm = "06" -> "junio"
      [] mm = "07" -> "julio" [] mm = "08" -> "agosto" [] mm = "09" -> "septiembre"
      [] mm = "10" -> "octubre" [] mm = "11" -> "noviembre" [] mm = "12" -> "diciembre"
      [] OTHER -> "Invalid"

\* An ISO date is the token sequence <<yyyy, "-", mm, "-", dd>>.
IsIsoDate(s) ==
    /\ Len(s) = 5
    /\ s[2] = "-"
    /\ s[4] = "-"
    /\ MonthName(s[3]) # "Invalid"

\* formatDate: es-ES, { year: 'numeric', month: 'long' }, read in a time zone
\* east of Greenwich (the page's locale), where the UTC midnight that
\* new Date("yyyy-mm-dd") denotes falls on the same calendar day.
formatDate(dateString) ==
    IF ~Truthy(dateString) THEN PresentLabel
    ELSE IF dateString.kind = "string" /\ IsIsoDate(dateString.val)
         THEN <<MonthName(dateString.val[3]), " ", "de", " ", dateString.val[1]>>
         ELSE <<"Invalid Date">>

createTimeTag(dateString) ==
    IF ~Truthy(dateString) THEN <<>>
    ELSE <<"<time datetime=">> \o ToString(dateString) \o <<">">>
         \o formatDate(dateString) \o <<"</time>">>

\* text.substring(0, maxLength) for 0 <= maxLength
Substring0(text, maxLength) ==
    SubSeq(text, 1, IF maxLength < Len(text) THEN maxLength ELSE Len(text))

safeTruncateOffByOne(text, maxLength) ==
    IF Len(text) < maxLength THEN text
    ELSE Substring0(text, maxLength) \o Ellipsis

safeTruncate(text, maxLength) ==
    IF Len(text) <= maxLength THEN text
    ELSE Substring0(text, maxLength) \o Ellipsis

\* ------------------------------------------------------------ renderer
\* The render pass threads one record through the section renderers:
\*   dom      the contents of each container (innerHTML / textContent)
\*   writes   the containers assigned so far, in order
\*   calls    the renderers entered so far, in order
\*   threw    an exception is propagating
\*   submitHandlers   listeners attached to the contact form
Containers ==
    {"main-header", "about-content", "contact-info", "json-ld-data",
     "skills-content", "experience-timeline", "certifications-cards",
     "events-list", "academic-list", "contact-form"}

HostMarkup == <<"<!-- host markup -->">>
PageUrl == <<"https://host.example/">>

Enter(st, name) == [st EXCEPT !.calls = Append(@, name)]
Write(st, c, html) == [st EXCEPT !.dom[c] = html, !.writes = Append(@, c)]
Throw(st) == [st EXCEPT !.threw = TRUE]

renderTag(text) == <<"<span class=tag>">> \o ToString(text) \o <<"</span>">>

\* xs.map(renderTag).join('')
Tags(xs) == Flatten([i \in 1..Len(xs.items) |-> renderTag(xs.items[i])])

Upper(c) ==
    CASE c = "g" -> "G" [] c = "l" -> "L" [] c = "x" -> "X" [] OTHER -> c

\* s.icon.charAt(0).toUpperCase(), the icon being a string of characters
IconInitial(icon) == IF icon.val = <<>> THEN <<>> ELSE <<Upper(icon.val[1])>>

SocialThrows(s) == ~CanRead(s) \/ Get(s, "icon").kind # "string"

SocialLink(s) ==
    <<"<a href=">> \o ToString(Get(s, "url")) \o <<" aria-label=">>
    \o ToString(Get(s, "name")) \o <<"><span>">> \o IconInitial(Get(s, "icon"))
    \o <<"</span>", " ">> \o ToString(Get(s, "name")) \o <<"</a>">>

\* JSON.stringify drops undefined properties and writes undefined array
\* elements as null
JsonProp(key, v) ==
    IF v.kind = "undefined" THEN <<>> ELSE <<key, ":">> \o ToString(v) \o <<";">>

generateJsonLd(personalData) ==
    LET social == Get(personalData, "social")
        sameAsUrls == [i \in 1..Len(social.items) |-> Get(social.items[i], "url")]
    IN  <<"{", "@type", ":", "Person", ";">>
        \o JsonProp("name", Get(personalData, "name"))
        \o JsonProp("jobTitle", Get(personalData, "title"))
        \o <<"url", ":">> \o PageUrl \o <<";">>
        \o JsonProp("email", Get(personalData, "email"))
        \o JsonProp("image", Get(personalData, "photo"))
        \o <<"sameAs", ":", "[">>
        \o JoinComma([i \in 1..Len(sameAsUrls) |->
               IF sameAsUrls[i].kind = "undefined" THEN <<"null">>
               ELSE ToString(sameAsUrls[i])])
        \o <<"]", "}">>

renderPersonal(st0, data) ==
    LET s1 == Write(Enter(st0, "renderPersonal"), "main-header",
                 <<"<img src=">> \o ToString(Get(data, "photo"))
                 \o <<" alt=Foto de perfil de ">> \o ToString(Get(data, "name"))
                 \o <<"><h1>">> \o ToString(Get(data, "name"))
                 \o <<"</h1><p>">> \o ToString(Get(data, "title")) \o <<"</p>">>)
        s2 == Write(s1, "about-content",
                 <<"<p>">> \o ToString(Get(data, "about")) \o <<"</p>">>)
        social == Get(data, "social")
    IN  IF ~CanMap(social) \/ \E i \in 1..Len(social.items) : SocialThrows(social.items[i])
        THEN Throw(s2)
        ELSE LET links == Flatten([i \in 1..Len(social.items) |->
                                      SocialLink(social.items[i])])
                 s3 == Write(s2, "contact-info", links)
                 s4 == Write(s3, "contact-info",
                          links \o <<"<a href=mailto:">> \o ToString(Get(data, "email"))
                          \o <<" aria-label=Enviar correo a ">>
                          \o ToString(Get(data, "name")) \o <<">Email</a>">>)
             IN  Write(s4, "json-ld-data", generateJsonLd(data))

SkillThrows(category) == ~CanRead(category) \/ ~CanMap(Get(category, "items"))

SkillCard(category) ==
    <<"<div class=skills__category aria-labelledby=skill-cat-">>
    \o ToString(Get(category, "category")) \o <<"><h3>">>
    \o ToString(Get(category, "category")) \o <<"</h3>">>
    \o Tags(Get(category, "items")) \o <<"</div>">>

renderSkills(st0, skills) ==
    LET s1 == Enter(st0, "renderSkills")
    IN  IF ~CanMap(skills) \/ \E i \in 1..Len(skills.items) : SkillThrows(skills.items[i])
        THEN Throw(s1)
        ELSE Write(s1, "skills-content",
                 Flatten([i \in 1..Len(skills.items) |-> SkillCard(skills.items[i])]))

JobThrows(job) == ~CanRead(job) \/ ~CanMap(Get(job, "tags"))

\* the end of an experience entry's date range
JobEndDate(job) ==
    IF Truthy(Get(job, "endDate")) THEN createTimeTag(Get(job, "endDate"))
    ELSE PresentLabel

\* the date range of an experience entry
JobDateRange(job) ==
    createTimeTag(Get(job, "startDate")) \o <<" - ">> \o JobEndDate(job)

\* index is the zero-based position in the list
TimelineItem(job, index) ==
    <<IF index % 2 = 0 THEN "<div class=timeline__item>"
      ELSE "<div class=timeline__item timeline__item--right>">>
    \o <<"<h3>">> \o ToString(Get(job, "title")) \o <<"</h3><p>">>
    \o ToString(Get(job, "company")) \o <<" - ">> \o ToString(Get(job, "location"))
    \o <<"</p><p class=timeline__date>">> \o JobDateRange(job) \o <<"</p><p>">>
    \o ToString(Get(job, "description")) \o <<"</p>">>
    \o Tags(Get(job, "tags")) \o <<"</div>">>

renderExperience(st0, experience) ==
    LET s1 == Enter(st0, "renderExperience")
    IN  IF ~CanMap(experience)
           \/ \E i \in 1..Len(experience.items) : JobThrows(experience.items[i])
        THEN Throw(s1)
        ELSE Write(s1, "experience-timeline",
                 Flatten([i \in 1..Len(experience.items) |->
                             TimelineItem(experience.items[i], i - 1)]))

CertCard(cert) ==
    <<"<a href=">> \o ToString(Get(cert, "url")) \o <<" class=card><h3>">>
    \o ToString(Get(cert, "name")) \o <<"</h3><p>">> \o ToString(Get(cert, "issuer"))
    \o <<"</p><p class=timeline__date>">> \o createTimeTag(Get(cert, "date"))
    \o <<"</p></a>">>

renderCertifications(st0, certifications) ==
    LET s1 == Enter(st0, "renderCertifications")
    IN  IF ~CanMap(certifications)
           \/ \E i \in 1..Len(certifications.items) : ~CanRead(certifications.items[i])
        THEN Throw(s1)
        ELSE Write(s1, "certifications-cards",
                 Flatten([i \in 1..Len(certifications.items) |->
                             CertCard(certifications.items[i])]))

EventItem(event) ==
    <<"<div class=list-item><h4><a href=">> \o ToString(Get(event, "url")) \o <<">">>
    \o ToString(Get(event, "title")) \o <<"</a></h4><p class=list-item__date>">>
    \o createTimeTag(Get(event, "date")) \o <<"</p><p>">>
    \o ToString(Get(event, "type")) \o <<" en ">> \o ToString(Get(event, "location"))
    \o <<"</p></div>">>

renderEvents(st0, events) ==
    LET s1 == Enter(st0, "renderEvents")
    IN  IF ~CanMap(events) \/ \E i \in 1..Len(events.items) : ~CanRead(events.items[i])
        THEN Throw(s1)
        ELSE Write(s1, "events-list",
                 Flatten([i \in 1..Len(events.items) |-> EventItem(events.items[i])]))

\* the end of an academic entry's date range
AcademicEndDate(item) == createTimeTag(Get(item, "endDate"))

\* the date range of an academic entry
AcademicDateRange(item) ==
    createTimeTag(Get(item, "startDate")) \o <<" - ">> \o AcademicEndDate(item)

AcademicItem(item) ==
    <<"<div class=list-item><h4>">> \o ToString(Get(item, "degree"))
    \o <<"</h4><p class=list-item__date>">> \o AcademicDateRange(item)
    \o <<"</p><p>">> \o ToString(Get(item, "institution")) \o <<"</p></div>">>

renderAcademic(st0, academic) ==
    LET s1 == Enter(st0, "renderAcademic")
    IN  IF ~CanMap(academic) \/ \E i \in 1..Len(academic.items) : ~CanRead(academic.items[i])
        THEN Throw(s1)
        ELSE Write(s1, "academic-list",
                 Flatten([i \in 1..Len(academic.items) |-> AcademicItem(academic.items[i])]))

FormMarkup == <<"<input id=name>", "<input id=email>", "<input id=subject>",
                "<textarea id=message>", "<input id=fax tabindex=-1>", "<button>">>

renderContactForm(st0, personalData) ==
    LET s1 == Write(Enter(st0, "renderContactForm"), "contact-form", FormMarkup)
    IN  [s1 EXCEPT !.submitHandlers = @ + 1]

RenderOrder ==
    <<"renderPersonal", "renderSkills", "renderExperience", "renderCertifications",
      "renderEvents", "renderAcademic", "renderContactForm">>

\* the k-th call of renderAll
RenderCall(k, st, data) ==
    CASE k = 1 -> renderPersonal(st, Get(data, "personal"))
      [] k = 2 -> renderSkills(st, Get(data, "skills"))
      [] k = 3 -> renderExperience(st, Get(data, "experience"))
      [] k = 4 -> renderCertifications(st, Get(data, "certifications"))
      [] k = 5 -> renderEvents(st, Get(data, "events"))
      [] k = 6 -> renderAcademic(st, Get(data, "academic"))
      [] k = 7 -> renderContactForm(st, Get(data, "personal"))

\* the calls from the k-th on; an exception ends the sequence
RECURSIVE RenderFrom(_, _, _)
RenderFrom(k, st, data) ==
    IF k > Len(RenderOrder) \/ st.threw THEN st
    ELSE RenderFrom(k + 1, RenderCall(k, st, data), data)

\* a renderAll that runs every section whatever the earlier ones did and
\* lets the exception out at the end
RECURSIVE RenderIsolated(_, _, _)
RenderIsolated(k, st, data) ==
    IF k > Len(RenderOrder) THEN st
    ELSE RenderIsolated(k + 1,
             [RenderCall(k, [st EXCEPT !.threw = FALSE], data)
                 EXCEPT !.threw = @ \/ st.threw],
             data)

renderAllIsolated(st0, data) == RenderIsolated(1, st0, data)

renderAll(st0, data) == RenderFrom(1, st0, data)

\* ----------------------------------------------------------- dataLoader
HostBody == <<"<!-- the page as served -->">>
ErrorMessage == <<"<p>Error al cargar el portfolio. Por favor, revisa el archivo data.json.</p>">>

\* validateData throws: a TypeError on a document that has no properties to
\* read, its own Error when one of the three sections is missing or falsy
validateDataSkipsExperience(data) ==
    \/ ~CanRead(data)
    \/ ~Truthy(Get(data, "personal"))
    \/ ~Truthy(Get(data, "skills"))

validateDataThrows(data) ==
    \/ ~CanRead(data)
    \/ ~Truthy(Get(data, "personal"))
    \/ ~Truthy(Get(data, "skills"))
    \/ ~Truthy(Get(data, "experience"))

\* What loadData makes of the outcome of its fetch:
\*   "network"  fetch rejected          "http"  response.ok is false
\*   "parse"    response.json() rejected "json"  the body parsed to `parsed`
\* failed: the catch branch ran (error logged, body replaced, null returned)
loadData(outcome, parsed) ==
    IF outcome = "json" /\ ~validateDataThrows(parsed)
    THEN [failed |-> FALSE, data |-> parsed]
    ELSE [failed |-> TRUE, data |-> Null]

\* ---------------------------------------------------------------- theme
Light == Str(<<"light">>)
Dark == Str(<<"dark">>)

\* th: [darkMode, ariaChecked, title, storage, threw]; switch: whether
\* getElementById('theme-switch') found the control
applyTheme(th, theme, switch) ==
    LET t1 == [th EXCEPT !.darkMode = (theme = Dark)]
    IN  IF ~switch THEN [t1 EXCEPT !.threw = TRUE]
        ELSE [t1 EXCEPT !.ariaChecked = IF theme = Dark THEN "true" ELSE "false",
                        !.title = IF theme = Dark THEN "Cambiar a tema claro"
                                  ELSE "Cambiar a tema oscuro",
                        !.storage = Str(ToString(theme))]

\* the theme the initial resolution hands to applyTheme
resolveTheme(savedTheme, osDark) ==
    IF Truthy(savedTheme) THEN savedTheme
    ELSE IF osDark THEN Dark
    ELSE Light

\* the click handler's choice of the new theme
newThemeStuck(darkClass) == Dark

newTheme(darkClass) ==
    LET currentTheme == IF darkClass THEN Dark ELSE Light
    IN  IF currentTheme = Light THEN Dark ELSE Light

\* --------------------------------------------------------- contact form
\* encodeURIComponent, token by token: a run of unreserved characters is
\* kept, a reserved character becomes its percent escape
EncodeToken(t) ==
    CASE t = " " -> "%20" [] t = "\n" -> "%0A" [] t = "[" -> "%5B"
      [] t = "]" -> "%5D" [] t = "," -> "%2C" [] t = "@" -> "%40"
      [] t = "&" -> "%26" [] t = "?" -> "%3F" [] t = "=" -> "%3D"
      [] OTHER -> t

encodeURIComponent(s) == [i \in 1..Len(s) |-> EncodeToken(s[i])]

PortfolioTag == <<"[", "Portfolio", "]", " ">>
DefaultSubject == <<"Consulta", " ", "de", " ", "Portfolio">>

FormDefaults ==
    [name |-> <<>>, email |-> <<>>, subject |-> DefaultSubject,
     message |-> <<>>, fax |-> <<>>]

mailtoSubject(f) == encodeURIComponent(PortfolioTag \o f.subject)

mailtoBody(f, personalData) ==
    encodeURIComponent(
        <<"Hola", " ">> \o ToString(Get(personalData, "name")) \o <<",", "\n", "\n">>
        \o <<"Mi", " ", "nombre", " ", "es", " ">> \o f.name \o <<" ", "(">> \o f.email
        \o <<")", ".", "\n", "\n">> \o f.message \o <<"\n", "\n", "Saludos", ".">>)

mailtoLink(f, personalData) ==
    <<"mailto:">> \o ToString(Get(personalData, "email")) \o <<"?subject=">>
    \o mailtoSubject(f) \o <<"&body=">> \o mailtoBody(f, personalData)

\* The submit listener: what it does, in order, and where it leaves the
\* form and window.location.href.
onSubmitNoHoneypot(f, personalData, location) ==
    [effects |-> <<"preventDefault", "navigate", "reset">>,
     href |-> mailtoLink(f, personalData),
     form |-> FormDefaults]

onSubmit(f, personalData, location) ==
    IF f.fax # <<>>
    THEN [effects |-> <<"preventDefault", "warn", "alert", "reset">>,
          href |-> location,
          form |-> FormDefaults]
    ELSE [effects |-> <<"preventDefault", "navigate", "reset">>,
          href |-> mailtoLink(f, personalData),
          form |-> FormDefaults]

\* ------------------------------------------------------------- inputs
T(w) == Str(<<w>>)
IsoDate(y, m) == Str(<<y, "-", m, "-", "15">>)

SocialOk ==
    Obj([name |-> T("GitHub"), url |-> T("https://github.example/u"),
         icon |-> Str(<<"g", "i", "t">>)])
SocialNoIcon == Obj([name |-> T("LinkedIn"), url |-> T("https://linkedin.example/u")])

PersonalFields ==
    [name |-> T("Jose"), title |-> T("Engineer"), photo |-> T("me.jpg"),
     about |-> T("About"), email |-> Str(<<"jose", "@", "mail.example">>)]
PersonalOk ==
    Obj([name |-> PersonalFields.name, title |-> PersonalFields.title,
         photo |-> PersonalFields.photo, about |-> PersonalFields.about,
         email |-> PersonalFields.email, social |-> Arr(<<SocialOk>>)])
PersonalNoIcon ==
    Obj([name |-> PersonalFields.name, title |-> PersonalFields.title,
         photo |-> PersonalFields.photo, about |-> PersonalFields.about,
         email |-> PersonalFields.email, social |-> Arr(<<SocialOk, SocialNoIcon>>)])
PersonalNoSocial ==
    Obj([name |-> PersonalFields.name, title |-> PersonalFields.title,
         email |-> PersonalFields.email])
PersonalVals == {Undefined, Null, PersonalOk, PersonalNoIcon, PersonalNoSocial}

SkillOk == Obj([category |-> T("Backend"), items |-> Arr(<<T("Go"), T("SQL")>>)])
SkillNoItems == Obj([category |-> T("Cloud")])
SkillsVals ==
    {Undefined, Str(<<>>), Arr(<<>>), Arr(<<SkillOk>>), Arr(<<SkillNoItems, SkillOk>>)}

JobEnded ==
    Obj([title |-> T("Dev"), company |-> T("Acme"), location |-> T("Madrid"),
         startDate |-> IsoDate("2019", "03"), endDate |-> IsoDate("2021", "10"),
         description |-> T("Built"), tags |-> Arr(<<T("JS")>>)])
JobOngoing ==
    Obj([title |-> T("Lead"), company |-> T("Initech"), location |-> T("Remote"),
         startDate |-> IsoDate("2021", "11"), endDate |-> Null,
         description |-> T("Leads"), tags |-> Arr(<<T("Go"), T("K8s")>>)])
JobNoEndDate ==
    Obj([title |-> T("Intern"), company |-> T("Hooli"), location |-> T("Lugo"),
         startDate |-> IsoDate("2018", "01"),
         description |-> T("Learns"), tags |-> Arr(<<>>)])
JobNoTags ==
    Obj([title |-> T("Ops"), company |-> T("Globex"), location |-> T("Vigo"),
         startDate |-> IsoDate("2017", "06"), endDate |-> IsoDate("2017", "12"),
         description |-> T("Runs")])
ExperienceVals ==
    {Undefined, Arr(<<>>), Arr(<<JobOngoing>>), Arr(<<JobOngoing, JobEnded>>),
     Arr(<<JobEnded, JobNoEndDate>>), Arr(<<JobEnded, JobNoTags, JobOngoing>>)}

Cert ==
    Obj([name |-> T("CKA"), issuer |-> T("CNCF"), date |-> IsoDate("2022", "05"),
         url |-> T("https://cert.example/1")])
CertificationsVals == {Undefined, Arr(<<Cert>>)}

Talk ==
    Obj([title |-> T("Talk"), type |-> T("Charla"), location |-> T("Sevilla"),
         date |-> IsoDate("2023", "09"), url |-> T("https://event.example/1")])
EventsVals == {Undefined, Arr(<<Talk>>)}

DegreeEnded ==
    Obj([degree |-> T("BSc"), institution |-> T("UVigo"),
         startDate |-> IsoDate("2012", "09"), endDate |-> IsoDate("2016", "06")])
DegreeOngoing ==
    Obj([degree |-> T("MSc"), institution |-> T("UNED"),
         startDate |-> IsoDate("2024", "09")])
AcademicVals ==
    {Undefined, Arr(<<DegreeOngoing>>), Arr(<<DegreeEnded, DegreeOngoing>>)}

\* the JSON values data.json may parse to
Documents ==
    {Null} \cup
    {Obj([personal |-> p, skills |-> s, experience |-> e,
          certifications |-> c, events |-> ev, academic |-> a]) :
        p \in PersonalVals, s \in SkillsVals, e \in ExperienceVals,
        c \in CertificationsVals, ev \in EventsVals, a \in AcademicVals}

\* what the 'theme' key of localStorage may hold when the page loads
\* (getItem gives null for a key that is not set)
StoredThemes == {Null, Str(<<>>), Light, Dark, Str(<<"blue">>)}

SubjectVals == {<<"Hi">>, <<"Q", "&", "A", "?">>}
MessageVals == {<<"Hello">>, <<"Hello", ",", " ", "Jose", "\n", "Bye">>}
FaxVals == {<<>>, <<"555">>}
VisitorName == <<"Ana", " ", "Ruiz">>
VisitorEmail == <<"ana", "@", "mail.example">>

RECURSIVE SeqsUpTo(_, _)
SeqsUpTo(S, n) ==
    IF n = 0 THEN {<<>>}
    ELSE LET shorter == SeqsUpTo(S, n - 1)
         IN  shorter \cup {Append(s, c) : s \in shorter, c \in S}

TruncTexts == SeqsUpTo({"a", "b"}, MaxLen)

\* ------------------------------------------------------------- the page
VARIABLES
    pc,             \* where the DOMContentLoaded handler is
    outcome,        \* how the fetch of data.json ended ("none" while pending)
    parsed,         \* the JSON value the response parsed to
    data,           \* what loadData returned
    bodyHtml,       \* document.body.innerHTML: as served, or the error message
    consoleErrors,  \* console.error calls
    dom, writes, calls, submitHandlers,
    renderThrew,    \* a section renderer threw out of renderAll
    storage,        \* localStorage 'theme' (null when not set)
    prefersDark,    \* matchMedia('(prefers-color-scheme: dark)').matches
    darkMode,       \* body carries the dark-mode class
    ariaChecked, title, role,   \* attributes of the theme switch
    clickHandlers,  \* click listeners on the theme switch
    savedAtLoad,    \* what the theme key held when the page loaded
    initialTheme,   \* dark-mode class right after the initial resolution
    clicks,         \* clicks handled so far
    form,           \* the values of the contact form's five fields
    location,       \* window.location.href
    effects,        \* what the last run of the submit listener did, in order
    truncText, truncMax, truncResult, truncDone

pageVars ==
    <<pc, outcome, parsed, data, bodyHtml, consoleErrors, dom, writes, calls,
      submitHandlers, renderThrew>>
themeVars ==
    <<storage, prefersDark, darkMode, ariaChecked, title, role, clickHandlers,
      savedAtLoad, initialTheme, clicks>>
formVars == <<form, location, effects>>
truncVars == <<truncText, truncMax, truncResult, truncDone>>
vars == <<pageVars, themeVars, formVars, truncVars>>

InitPage ==
    /\ pc = "idle"
    /\ outcome = "none"
    /\ parsed = Undefined
    /\ data = Undefined
    /\ bodyHtml = HostBody
    /\ consoleErrors = 0
    /\ dom = [c \in Containers |-> HostMarkup]
    /\ writes = <<>>
    /\ calls = <<>>
    /\ submitHandlers = 0
    /\ renderThrew = FALSE
    /\ darkMode = FALSE
    /\ ariaChecked = "unset"
    /\ title = "unset"
    /\ role = "unset"
    /\ clickHandlers = 0
    /\ initialTheme = FALSE
    /\ clicks = 0
    /\ form = FormDefaults
    /\ location = PageUrl
    /\ effects = <<>>

Init ==
    /\ InitPage
    /\ storage \in StoredThemes
    /\ savedAtLoad = storage
    /\ prefersDark \in BOOLEAN
    /\ truncText = <<>>
    /\ truncMax = 0
    /\ truncResult = <<>>
    /\ truncDone = FALSE

\* The page-ready handler starts: loadData issues its one fetch and suspends.
DOMContentLoaded ==
    /\ pc = "idle"
    /\ pc' = "fetching"
    /\ UNCHANGED <<outcome, parsed, data, bodyHtml, consoleErrors, dom, writes,
                   calls, submitHandlers, renderThrew>>
    /\ UNCHANGED <<themeVars, formVars, truncVars>>

\* Everything the handler does once the fetch-and-parse has ended one way or
\* another: the rest of loadData, the render pass, the theme set-up.
Resume(how, json) ==
    LET loaded == loadData(how, json)
        st0 == [dom |-> dom, writes |-> writes, calls |-> calls, threw |-> FALSE,
                submitHandlers |-> submitHandlers]
        st == IF Truthy(loaded.data) THEN renderAll(st0, loaded.data) ELSE st0
        \* the theme switch is part of the body: once the body has been
        \* replaced, getElementById('theme-switch') finds nothing
        switch == ~loaded.failed
        th0 == [darkMode |-> darkMode, ariaChecked |-> ariaChecked, title |-> title,
                storage |-> storage, threw |-> FALSE]
        th == applyTheme(th0, resolveTheme(storage, prefersDark), switch)
    IN  /\ outcome' = how
        /\ parsed' = json
        /\ data' = loaded.data
        /\ bodyHtml' = IF loaded.failed THEN ErrorMessage ELSE bodyHtml
        /\ consoleErrors' = IF loaded.failed THEN consoleErrors + 1 ELSE consoleErrors
        /\ dom' = st.dom
        /\ writes' = st.writes
        /\ calls' = st.calls
        /\ submitHandlers' = st.submitHandlers
        /\ renderThrew' = st.threw
        /\ IF st.threw
           THEN /\ pc' = "rejected"
                /\ UNCHANGED themeVars
           ELSE /\ darkMode' = th.darkMode
                /\ ariaChecked' = th.ariaChecked
                /\ title' = th.title
                /\ storage' = th.storage
                /\ initialTheme' = th.darkMode
                /\ clickHandlers' = IF th.threw THEN clickHandlers ELSE clickHandlers + 1
                /\ role' = IF th.threw THEN role ELSE "switch"
                /\ pc' = IF th.threw THEN "rejected" ELSE "ready"
                /\ UNCHANGED <<prefersDark, savedAtLoad, clicks>>
        /\ UNCHANGED <<formVars, truncVars>>

\* fetch rejects, or resolves with a response that is not ok
FetchFails ==
    /\ pc = "fetching"
    /\ \E how \in {"network", "http"} : Resume(how, Undefined)

\* fetch resolves with an ok response: loadData suspends on response.json()
FetchSucceeds ==
    /\ pc = "fetching"
    /\ pc' = "parsing"
    /\ UNCHANGED <<outcome, parsed, data, bodyHtml, consoleErrors, dom, writes,
                   calls, submitHandlers, renderThrew>>
    /\ UNCHANGED <<themeVars, formVars, truncVars>>

\* response.json() rejects: the body is not JSON
ParseFails ==
    /\ pc = "parsing"
    /\ Resume("parse", Undefined)

\* response.json() resolves
ParseSucceeds ==
    /\ pc = "parsing"
    /\ \E json \in Documents : Resume("json", json)

\* a click on the theme switch
Click ==
    /\ clickHandlers > 0
    /\ clicks < MaxClicks
    /\ LET th0 == [darkMode |-> darkMode, ariaChecked |-> ariaChecked,
                   title |-> title, storage |-> storage, threw |-> FALSE]
           th == applyTheme(th0, newTheme(darkMode), TRUE)
       IN  /\ darkMode' = th.darkMode
           /\ ariaChecked' = th.ariaChecked
           /\ title' = th.title
           /\ storage' = th.storage
    /\ clicks' = clicks + 1
    /\ UNCHANGED <<prefersDark, role, clickHandlers, savedAtLoad, initialTheme>>
    /\ UNCHANGED <<pageVars, formVars, truncVars>>

\* the visitor (or a bot) fills the fields of the rendered form
FillForm ==
    /\ "contact-form" \in {writes[i] : i \in 1..Len(writes)}
    /\ \E s \in SubjectVals, m \in MessageVals, x \in FaxVals :
          form' = [name |-> VisitorName, email |-> VisitorEmail, subject |-> s,
                   message |-> m, fax |-> x]
    /\ UNCHANGED <<location, effects>>
    /\ UNCHANGED <<pageVars, themeVars, truncVars>>

\* a submit event on the contact form
Submit ==
    /\ submitHandlers > 0
    /\ LET r == onSubmit(form, Get(data, "personal"), location)
       IN  /\ effects' = r.effects
           /\ location' = r.href
           /\ form' = r.form
    /\ UNCHANGED <<pageVars, themeVars, truncVars>>

Next ==
    \/ DOMContentLoaded
    \/ FetchFails
    \/ FetchSucceeds
    \/ ParseFails
    \/ ParseSucceeds
    \/ Click
    \/ FillForm
    \/ Submit

Spec == Init /\ [][Next]_vars

\* ------------------------------------------------ safeTruncate on its own
InitTrunc ==
    /\ InitPage
    /\ storage = Null
    /\ savedAtLoad = Null
    /\ prefersDark = FALSE
    /\ truncText \in TruncTexts
    /\ truncMax \in 0..MaxN
    /\ truncResult = <<>>
    /\ truncDone = FALSE

Truncate ==
    /\ ~truncDone
    /\ truncResult' = safeTruncate(truncText, truncMax)
    /\ truncDone' = TRUE
    /\ UNCHANGED <<truncText, truncMax>>
    /\ UNCHANGED <<pageVars, themeVars, formVars>>

NextTrunc == Truncate

SpecTrunc == InitTrunc /\ [][NextTrunc]_vars

\* ------------------------------------------------------------- claims
Finished == pc \in {"ready", "rejected"}
AppliedTheme == IF darkMode THEN Dark ELSE Light
Written(c) == c \in {writes[i] : i \in 1..Len(writes)}

\* the fetch ended in one of the ways that must be fatal: a non-success
\* status, a body that is not JSON, or a document without (or with a falsy)
\* personal, skills or experience
LoadMustFail ==
    \/ outcome \in {"http", "parse"}
    \/ /\ outcome = "json"
       /\ \E k \in {"personal", "skills", "experience"} : ~Truthy(Get(parsed, k))

\* C1: whenever the fetch ended with a non-success status, a parse failure or
\* a document lacking personal, skills or experience, the body has been
\* replaced by the error message, loadData returned null, the error was
\* logged, and no section renderer ran: no container was written and no
\* submit handler attached.
C1_FatalLoadNeverRenders ==
    LoadMustFail =>
        /\ bodyHtml = ErrorMessage
        /\ data = Null
        /\ consoleErrors = 1
        /\ calls = <<>>
        /\ writes = <<>>
        /\ \A c \in Containers : dom[c] = HostMarkup
        /\ submitHandlers = 0

C1_Witness ==
    /\ outcome = "json"
    /\ Truthy(Get(parsed, "personal"))
    /\ Truthy(Get(parsed, "skills"))
    /\ ~Truthy(Get(parsed, "experience"))
    /\ bodyHtml = ErrorMessage

\* C2: right after the initial resolution the applied theme is the stored
\* value if a value was stored under the theme key, whatever the OS prefers;
\* dark if nothing was stored and the OS prefers dark; light otherwise.
C2_StoredValueWins ==
    (pc = "ready" /\ clicks = 0) =>
        /\ savedAtLoad # Null => AppliedTheme = savedAtLoad
        /\ (savedAtLoad = Null /\ prefersDark) => AppliedTheme = Dark
        /\ (savedAtLoad = Null /\ ~prefersDark) => AppliedTheme = Light

\* C3: once the click handler is registered, the applied theme equals the
\* one the initial resolution applied exactly when the number of clicks is
\* even (each click flips it), and after a click the theme key holds the
\* theme that click applied.
C3_ClickFlipsAndPersists ==
    clickHandlers > 0 =>
        /\ (darkMode = initialTheme) <=> (clicks % 2 = 0)
        /\ clicks > 0 => storage = AppliedTheme

C3_Witness ==
    /\ clicks = 2
    /\ darkMode = initialTheme
    /\ storage = AppliedTheme
    /\ savedAtLoad = Null

\* C4: once the theme initialization has run, the theme key holds exactly
\* "light" or "dark", and it holds "dark" exactly when the body carries the
\* dark-mode class.
C4_StoredThemeIsLightOrDark ==
    pc = "ready" =>
        /\ storage \in {Light, Dark}
        /\ darkMode <=> (storage = Dark)

\* the date paragraph an entry must show when its end date is absent
PresentRange(entry) ==
    createTimeTag(Get(entry, "startDate")) \o <<" - ">> \o PresentLabel

ExperienceShowsPresent ==
    Written("experience-timeline") =>
        \A i \in 1..Len(Get(data, "experience").items) :
            LET job == Get(data, "experience").items[i]
            IN  ~Truthy(Get(job, "endDate")) =>
                    Contains(dom["experience-timeline"],
                        <<"</p><p class=timeline__date>">> \o PresentRange(job)
                        \o <<"</p><p>">>)

AcademicShowsPresent ==
    Written("academic-list") =>
        \A i \in 1..Len(Get(data, "academic").items) :
            LET item == Get(data, "academic").items[i]
            IN  ~Truthy(Get(item, "endDate")) =>
                    Contains(dom["academic-list"],
                        <<"</h4><p class=list-item__date>">> \o PresentRange(item)
                        \o <<"</p><p>">>)

\* C5: every rendered experience entry and every rendered academic entry
\* whose endDate is absent shows the label "Actualidad" as the end of its
\* date range.
C5_AbsentEndDateShowsPresent == ExperienceShowsPresent /\ AcademicShowsPresent

\* the link the submit handler must navigate to, up to the start of the body
MailtoPrefix(f) ==
    <<"mailto:", "jose", "@", "mail.example", "?subject=">>
    \o <<"%5B", "Portfolio", "%5D", "%20">> \o encodeURIComponent(f.subject)
    \o <<"&body=">>

Has(e, x) == \E i \in 1..Len(e) : e[i] = x
Before(e, x, y) == \E i, j \in 1..Len(e) : i < j /\ e[i] = x /\ e[j] = y

\* C6: every submit suppresses the default submission and resets the form;
\* it navigates if and only if the decoy field is empty.  With the decoy
\* filled the location is left alone, an acknowledgment is shown and a
\* warning logged.  With the decoy empty the new location is the mailto:
\* link to the owner whose subject is the encoded "[Portfolio] " tag followed
\* by the encoded subject and whose body contains the encoded message, and
\* the reset comes after the navigation.
C6_SubmitNavigatesIffDecoyEmpty ==
    [][Submit =>
        /\ effects'[1] = "preventDefault"
        /\ Has(effects', "reset")
        /\ form' = FormDefaults
        /\ Has(effects', "navigate") <=> (form.fax = <<>>)
        /\ form.fax # <<>> =>
              /\ location' = location
              /\ Has(effects', "alert")
              /\ Has(effects', "warn")
        /\ form.fax = <<>> =>
              /\ Len(location') > Len(MailtoPrefix(form))
              /\ SubSeq(location', 1, Len(MailtoPrefix(form))) = MailtoPrefix(form)
              /\ Contains(SubSeq(location', Len(MailtoPrefix(form)) + 1, Len(location')),
                          encodeURIComponent(form.message))
              /\ Before(effects', "navigate", "reset")
    ]_vars

C6_Witness ==
    /\ effects = <<"preventDefault", "navigate", "reset">>
    /\ location # PageUrl
    /\ form = FormDefaults

\* every section of the document is a list, and so is personal.social: only
\* the items of the lists may be malformed
SectionsAreLists(d) ==
    /\ CanMap(Get(Get(d, "personal"), "social"))
    /\ \A k \in {"skills", "experience", "certifications", "events", "academic"} :
          CanMap(Get(d, k))

\* C7: for a document that passed validation and whose sections are lists, a
\* malformed item degrades only its own markup: no renderer throws, every
\* section through the contact form is rendered.
C7_MalformedItemDegradesOnlyItself ==
    (Finished /\ Truthy(data) /\ SectionsAreLists(data)) =>
        /\ ~renderThrew
        /\ calls = RenderOrder
        /\ Written("contact-form")
        /\ submitHandlers = 1

\* C8: when the page-ready handler has ended, however the load and the
\* render pass went, the theme has been resolved, applied and persisted and
\* the click handler is registered.
C8_ThemeInitializedWhateverTheLoad ==
    (Finished /\ clicks = 0) =>
        /\ storage = resolveTheme(savedAtLoad, prefersDark)
        /\ darkMode = (storage = Dark)
        /\ clickHandlers = 1

\* C9: safeTruncate(text, n) is text itself when text has at most n
\* characters; otherwise it is the first n characters of text followed by
\* "...", n + 3 characters in all.
C9_SafeTruncate ==
    truncDone =>
        IF Len(truncText) <= truncMax
        THEN truncResult = truncText
        ELSE /\ truncResult = SubSeq(truncText, 1, truncMax) \o <<".", ".", ".">>
             /\ Len(truncResult) = truncMax + 3

C9_Witness ==
    /\ truncDone
    /\ truncMax > 0
    /\ Len(truncText) > truncMax
    /\ Len(truncResult) = truncMax + 3

\* the containers each renderer assigns
ContainersOf(name) ==
    CASE name = "renderPersonal" ->
             {"main-header", "about-content", "contact-info", "json-ld-data"}
      [] name = "renderSkills" -> {"skills-content"}
      [] name = "renderExperience" -> {"experience-timeline"}
      [] name = "renderCertifications" -> {"certifications-cards"}
      [] name = "renderEvents" -> {"events-list"}
      [] name = "renderAcademic" -> {"academic-list"}
      [] name = "renderContactForm" -> {"contact-form"}

\* the position in RenderOrder of the renderer that assigns container c
PositionOf(c) == CHOOSE k \in 1..Len(RenderOrder) : c \in ContainersOf(RenderOrder[k])

\* C10: the renderers run in the fixed order, each at most once, and a
\* container is written only by its renderer, in that order.  If the
\* renderer at position k throws, no container of a later renderer is
\* written, no submit handler is attached, and the exception leaves the
\* page-ready handler too: nothing after renderAll runs.  A submit handler
\* is attached only after all seven calls, none of which threw.
C10_RenderOrderAndAbort ==
    /\ Len(calls) <= Len(RenderOrder)
    /\ calls = SubSeq(RenderOrder, 1, Len(calls))
    /\ \A i \in 1..Len(writes) : PositionOf(writes[i]) <= Len(calls)
    /\ \A i, j \in 1..Len(writes) :
          i < j => PositionOf(writes[i]) <= PositionOf(writes[j])
    /\ \A c \in Containers : (dom[c] # HostMarkup) => Written(c)
    /\ renderThrew =>
          /\ Len(calls) \in 1..6
          /\ \A c \in Containers :
                PositionOf(c) > Len(calls) => (dom[c] = HostMarkup /\ ~Written(c))
          /\ submitHandlers = 0
          /\ pc = "rejected"
          /\ clickHandlers = 0
          /\ storage = savedAtLoad
    /\ submitHandlers > 0 =>
          /\ submitHandlers = 1
          /\ calls = RenderOrder
          /\ ~renderThrew

C10_Witness ==
    /\ renderThrew
    /\ Len(calls) = 3
    /\ Written("skills-content")
    /\ ~Written("experience-timeline")
    /\ pc = "rejected"

====
